---- MODULE Spec2Model ----
(***************************************************************************)
(* Model of script_automate.py: the GEE -> Drive -> FTP pipeline.          *)
(*                                                                         *)
(* The script is one sequential program.  Its state is the position in     *)
(* the per-site loop (pc), the script's own variables (tasks, pending,     *)
(* ready, sent, errs, all_sent, all_errs, total_tasks), and what it reads  *)
(* from outside: the state of the Earth Engine tasks, the content of the   *)
(* site's Drive folder, the local scratch directory and the clock.         *)
(*                                                                         *)
(* Time is in milliseconds.  The script reads the clock only as            *)
(* time.time() - t0, so the model keeps that difference (elapsed); it      *)
(* advances by the argument of every time.sleep, as with an injected       *)
(* clock.  Remote calls themselves take no time.                           *)
(***************************************************************************)
EXTENDS Integers, Sequences, FiniteSets, TLC

(* ------------------------------ bounds -------------------------------- *)
\* WAIT_TIME, PER_TASK_WAIT and FILE_TIMEOUT are read from the environment
\* (defaults 14400, 900 and 1800 seconds); the model uses short budgets.
WAIT_TIME == 60
PER_TASK_WAIT == 45
FILE_TIMEOUT == 15
\* Largest number of next_chunk calls one download needs.
MaxChunks == 2

(* ------------------------- program constants -------------------------- *)
POLL_EVERY == 30
FILE_POLL_SLEEP == 15
RETRY_LAST == 6
RETRY_BASE == 3
DAYS_BACK == 30
step == 10
period == 30

AllSites == <<"koga", "kibimba", "kanyonyomba", "renk", "rahad">>
AllIndices == <<"NDVI", "EVI", "LAI", "NDRE", "MSAVI", "SIWSI", "NMDI">>

Min(a, b) == IF a < b THEN a ELSE b
Max(a, b) == IF a > b THEN a ELSE b

\* The first n entries of s (all of s when it is shorter).
Take(s, n) == SubSeq(s, 1, Min(n, Len(s)))

\* The run of the model processes the first two sites of the script's five
\* and exports the first two bands of its seven.
SITE_IDS == Take(AllSites, 2)
INDICES == Take(AllIndices, 2)

\* The objects a site's folder may hold from before the run.
OldIds == {1}

\* END_DATE.difference(START_DATE, "day"): START_DATE is today - 30 days.
n_days == DAYS_BACK

RECURSIVE PyRange(_, _, _)
\* Python's range(lo, hi, st) for st > 0, as a sequence.
PyRange(lo, hi, st) == IF lo >= hi THEN <<>> ELSE <<lo>> \o PyRange(lo + st, hi, st)

\* The time-window offsets of the export loop.
Offsets == PyRange(0, n_days - period + 1, step)

(* -------------------------- _retry (l. 92-101) ------------------------ *)
\* What one call of a wrapped operation can do: succeed, or fail with
\* ssl.SSLError, socket.error, an HttpError of some status, or with an
\* exception of another class.
Retryable == {"ssl", "socket", "http403", "http404", "http500"}
HttpErrors == {"http403", "http404", "http500"}
Outcomes == {"ok", "other"} \cup Retryable

\* random.random() in thousandths; two samples of [0, 1).
JitterSamples == {0, 998}

RECURSIVE Pow2(_)
Pow2(n) == IF n <= 0 THEN 1 ELSE 2 * Pow2(n - 1)

\* delay = 3 * 2 ** (i - 1) * (0.5 + random.random() / 2), in milliseconds.
delay(i, r) == (RETRY_BASE * Pow2(i - 1) * (1000 + r)) \div 2

\* A loop that runs one attempt too many: range(1, 8).
retry_step_late(i, o) ==
    IF o = "ok" THEN [kind |-> "return", err |-> "none"]
    ELSE IF o \in Retryable
         THEN IF i = RETRY_LAST + 1 THEN [kind |-> "raise", err |-> o]
                                    ELSE [kind |-> "sleep", err |-> "none"]
         ELSE [kind |-> "raise", err |-> o]

\* One pass of the loop body of _retry: attempt number i, the call ends as o.
retry_step(i, o) ==
    IF o = "ok" THEN [kind |-> "return", err |-> "none"]
    ELSE IF o \in Retryable
         THEN IF i = RETRY_LAST THEN [kind |-> "raise", err |-> o]
                                ELSE [kind |-> "sleep", err |-> "none"]
         ELSE [kind |-> "raise", err |-> o]

RECURSIVE retry_from(_, _, _)
\* _retry run to its end on the sequence outs of call outcomes, from attempt
\* i on, with jitter sample r: how it ends, the calls made, the sleeps taken
\* and the time slept.
retry_from(i, outs, r) ==
    LET s == retry_step(i, outs[i]) IN
    IF s.kind = "sleep" /\ i < Len(outs)
    THEN LET rest == retry_from(i + 1, outs, r) IN
         [kind |-> rest.kind, err |-> rest.err, calls |-> rest.calls + 1,
          sleeps |-> rest.sleeps + 1, slept |-> rest.slept + delay(i, r)]
    ELSE [kind |-> s.kind, err |-> s.err, calls |-> 1, sleeps |-> 0, slept |-> 0]

_retry(outs, r) == retry_from(1, outs, r)

\* n failures of kind e, then the outcome o.
RunOf(n, e, o) == [i \in 1..(n + 1) |-> IF i <= n THEN e ELSE o]

\* The call outcomes a wrapped operation is given in a run of the script: it
\* succeeds at once, after one failure or at the last attempt, or it fails
\* with an exception _retry does not catch, or at every attempt.
CallRuns ==
    { RunOf(0, "ssl", "ok"), RunOf(1, "ssl", "ok"), RunOf(RETRY_LAST - 1, "ssl", "ok"),
      RunOf(0, "ssl", "other"), RunOf(RETRY_LAST - 1, "ssl", "http500") }

\* The same for a delete, which Drive may also refuse (403) or not find (404).
DelRuns ==
    CallRuns \cup
    { RunOf(1, "http403", "ok"), RunOf(RETRY_LAST - 1, "http403", "http403"),
      RunOf(RETRY_LAST - 1, "http404", "http404") }

\* The except clause of drv_del (l. 109-111) for the exception err that
\* _retry raised: an HttpError with status 403 or 404 is swallowed.
del_handler(err) == IF err \in {"http403", "http404"} THEN "skipped" ELSE "raise"

\* drv_del (l. 106-111): _retry(delete) under that except clause.
drv_del(outs, r) ==
    LET x == _retry(outs, r) IN
    IF x.kind = "raise" THEN [x EXCEPT !.kind = del_handler(x.err)] ELSE x

(* ------------------------------- state -------------------------------- *)
VARIABLES
    pc,          \* position of the script in the per-site loop
    si,          \* index in SITE_IDS of the site being processed
    fatal,       \* the exception that ended the run, if any
    folder,      \* the site's Drive folder: "unknown", "missing", "created", "exists"
    old,         \* objects found in the folder from before the run
    out,         \* per task: the state of the object its export writes
    children,    \* ids listed for deletion
    ki,          \* index in children of the next object to delete
    oi,          \* index in Offsets of the window being exported
    bi,          \* index in INDICES of the next band to export
    img,         \* img_final of the current window
    cloudy,      \* some dekad of the current site had no source image
    tasks,       \* the tasks started for the current site (their fname)
    jstate,      \* per task: its state at Earth Engine
    pending,     \* indices of the tasks not yet seen terminal
    elapsed,     \* time.time() - t0 while a wait loop runs, in milliseconds
    lastEnd,     \* elapsed when the latest task of the site ended
    want,        \* len(tasks) at the start of the .tif wait loop
    listed,      \* the last listing of .tif objects
    ready,       \* the listed objects counted as ready
    fi,          \* index in ready of the file being relayed
    chunks,      \* next_chunk calls made for the current download
    scratch,     \* the files in /tmp written by the run
    uploaded,    \* the file last stored on the FTP server for the site
    sent, errs,  \* per-site transfer outcomes
    all_sent, all_errs, total_tasks,
    relay,       \* what happened to each ready file, as it happened
    mails,       \* the messages sent
    r_op,        \* the operation a traced _retry wraps
    r_i,         \* trace of _retry: the attempt number
    r_state,     \* trace of _retry: "idle", "call", "returned", "raise", "skipped"
    r_err,       \* trace of _retry: the exception that left it
    r_last,      \* trace of _retry: the outcome of the latest call
    r_log,       \* trace of _retry: the calls and sleeps, in order
    px           \* one pixel of one band on its way through the compositing

driveVars == <<folder, old, out, children, ki>>
subVars == <<oi, bi, img, cloudy, tasks>>
pollVars == <<jstate, pending, lastEnd>>
fileVars == <<want, listed, ready>>
xferVars == <<fi, chunks, sent, errs>>
siteVars == <<driveVars, subVars, pollVars, fileVars, xferVars>>
outVars == <<scratch, uploaded, all_sent, all_errs, total_tasks, relay, mails>>
runVars == <<pc, si, fatal, elapsed, outVars>>
retryVars == <<r_op, r_i, r_state, r_err, r_last, r_log>>
sideVars == <<retryVars, px>>
vars == <<siteVars, runVars, sideVars>>

NoImg == [bands |-> <<>>, empty |-> <<>>]
NoErr == [kind |-> "none", err |-> "none"]

\* The display name of the site being processed.
site == SITE_IDS[si]

\* The values the per-site variables have when a site begins.
SiteReset ==
    /\ folder' = "unknown"
    /\ old' = [n \in OldIds |-> "absent"]
    /\ out' = <<>>
    /\ children' = <<>>
    /\ ki' = 1
    /\ oi' = 1
    /\ bi' = 1
    /\ img' = NoImg
    /\ cloudy' = FALSE
    /\ tasks' = <<>>
    /\ jstate' = <<>>
    /\ pending' = {}
    /\ lastEnd' = 0
    /\ want' = 0
    /\ listed' = <<>>
    /\ ready' = <<>>
    /\ fi' = 1
    /\ chunks' = 0
    /\ sent' = <<>>
    /\ errs' = <<>>

RetryIdle ==
    /\ r_op = "none"
    /\ r_i = 1
    /\ r_state = "idle"
    /\ r_err = "none"
    /\ r_last = "none"
    /\ r_log = <<>>

ScriptInit ==
    /\ pc = "site"
    /\ si = 1
    /\ fatal = NoErr
    /\ elapsed = 0
    /\ scratch = {}
    /\ uploaded = [name |-> "none", bytes |-> 0]
    /\ all_sent = <<>>
    /\ all_errs = <<>>
    /\ total_tasks = 0
    /\ relay = <<>>
    /\ mails = <<>>
    /\ folder = "unknown"
    /\ old = [n \in OldIds |-> "absent"]
    /\ out = <<>>
    /\ children = <<>>
    /\ ki = 1
    /\ oi = 1
    /\ bi = 1
    /\ img = NoImg
    /\ cloudy = FALSE
    /\ tasks = <<>>
    /\ jstate = <<>>
    /\ pending = {}
    /\ lastEnd = 0
    /\ want = 0
    /\ listed = <<>>
    /\ ready = <<>>
    /\ fi = 1
    /\ chunks = 0
    /\ sent = <<>>
    /\ errs = <<>>

\* No pixel is being followed.
PixelIdle == px = [stage |-> "idle"]

Init == ScriptInit /\ RetryIdle /\ PixelIdle

\* A fatal error caught region by region: the loop goes on to the next one.
Abort_region(kind, err) ==
    /\ pc' = "quit"
    /\ fatal' = [kind |-> kind, err |-> err]

\* An uncaught exception: the interpreter exits, nothing else runs.
Abort(kind, err) ==
    /\ pc' = "aborted"
    /\ fatal' = [kind |-> kind, err |-> err]

(* --------------------------- Drive objects ---------------------------- *)
\* The kinds of object left in a folder by an earlier run or another user:
\* a .tif raster or some other file.
OldKinds == {"tif", "txt"}

\* f"{site}_{band}_{date_str}", date_str the middle of the window (d1 + 15).
fname(s, band, off) == <<s, band, off + 15>>

\* The "size" field Drive reports for an object in state st.
SizeField(st) == CASE st = "nosize" -> "none" [] st = "zero" -> "0" [] OTHER -> "1024"

OldEntry(o, s, n) ==
    [id |-> <<"old", n>>, name |-> [fname |-> <<s, "old", n>>, ext |-> o[n]],
     size |-> "1024"]
OutEntry(t) ==
    [id |-> <<"out", t>>, name |-> [fname |-> tasks[t], ext |-> "tif"],
     size |-> SizeField(out[t])]

RECURSIVE OldList(_, _, _)
\* The objects from before the run that the folder of site s holds, o being
\* the state of each.
OldList(o, s, n) ==
    IF n \notin OldIds THEN <<>>
    ELSE (IF o[n] = "absent" THEN <<>> ELSE <<OldEntry(o, s, n)>>) \o OldList(o, s, n + 1)

RECURSIVE OutList(_)
OutList(t) ==
    IF t > Len(out) THEN <<>>
    ELSE (IF out[t] = "absent" THEN <<>> ELSE <<OutEntry(t)>>) \o OutList(t + 1)

\* files().list(q = "'<folder>' in parents and trashed=false").
FolderFiles == OldList(old, site, 1) \o OutList(1)

\* The same listing with "and name contains '.tif'".
TifFiles == SelectSeq(FolderFiles, LAMBDA f : f.name.ext = "tif")

(* -------------------- site lookup, folder, emptying ------------------- *)
\* l. 217-221: read the site feature and its name.
SiteLookup(ok) ==
    /\ pc = "site"
    /\ IF ok THEN pc' = "folder" /\ fatal' = fatal ELSE Abort("lookup", "ee")
    /\ UNCHANGED <<si, elapsed, outVars, siteVars, sideVars>>

\* The position after the folder is emptied: the export loop, or the task
\* wait when there is no window to export.
AfterEmpty == IF Len(Offsets) > 0 THEN "compose" ELSE "jp_start"

\* l. 224-229: look the folder up by name.  exists is what Drive holds.
FolderList(outs, r, exists) ==
    /\ pc = "folder"
    /\ LET x == _retry(outs, r) IN
       IF x.kind = "return"
       THEN /\ folder' = IF exists THEN "exists" ELSE "missing"
            /\ pc' = IF exists THEN "children" ELSE "create"
            /\ fatal' = fatal
       ELSE /\ Abort("drive", x.err)
            /\ folder' = folder
    /\ UNCHANGED <<old, out, children, ki, subVars, pollVars, fileVars, xferVars,
                   si, elapsed, outVars, sideVars>>

\* l. 231-232: create the folder.
FolderCreate(outs, r) ==
    /\ pc = "create"
    /\ LET x == _retry(outs, r) IN
       IF x.kind = "return"
       THEN /\ folder' = "created"
            /\ pc' = "children"
            /\ fatal' = fatal
       ELSE /\ Abort("drive", x.err)
            /\ folder' = folder
    /\ UNCHANGED <<old, out, children, ki, subVars, pollVars, fileVars, xferVars,
                   si, elapsed, outVars, sideVars>>

\* l. 234: list the folder's children.  found is what the folder holds from
\* before the run (nothing when the folder was just created).  Once listed,
\* a folder just created is a folder that exists.
ChildrenList(outs, r, found) ==
    /\ pc = "children"
    /\ folder = "created" => found = [n \in OldIds |-> "absent"]
    /\ LET x == _retry(outs, r) IN
       IF x.kind = "return"
       THEN /\ old' = found
            /\ folder' = "exists"
            /\ children' = [k \in 1..Len(OldList(found, site, 1)) |->
                                 OldList(found, site, 1)[k].id]
            /\ ki' = 1
            /\ pc' = IF Len(OldList(found, site, 1)) > 0 THEN "empty" ELSE AfterEmpty
            /\ fatal' = fatal
       ELSE /\ Abort("drive", x.err)
            /\ UNCHANGED <<folder, old, children, ki>>
    /\ UNCHANGED <<out, subVars, pollVars, fileVars, xferVars,
                   si, elapsed, outVars, sideVars>>

\* l. 235-236: drv_del of the next child.  A delete that succeeds, or that
\* fails with 404, leaves no object; a delete refused with 403 leaves it.
DeleteKid(outs, r) ==
    /\ pc = "empty"
    /\ ki <= Len(children)
    /\ LET x == drv_del(outs, r)
           n == children[ki][2]
       IN
       IF x.kind \in {"return", "skipped"}
       THEN /\ old' = IF x.kind = "return" \/ x.err = "http404"
                      THEN [old EXCEPT ![n] = "absent"] ELSE old
            /\ ki' = ki + 1
            /\ pc' = IF ki = Len(children) THEN AfterEmpty ELSE "empty"
            /\ fatal' = fatal
       ELSE /\ Abort("drive", x.err)
            /\ UNCHANGED <<old, ki>>
    /\ UNCHANGED <<folder, out, children, subVars, pollVars, fileVars, xferVars,
                   si, elapsed, outVars, sideVars>>

(* ------------------------ exports (l. 240-299) ------------------------ *)
\* Largest number of source images of one dekad.
MaxImages == 1

\* empty_img (l. 85-89): all bands of INDICES, every pixel masked.
empty_img == [bands |-> INDICES, placeholder |-> TRUE]

\* A placeholder that does not carry the band names.
dekad_composite_bare(n) ==
    IF n > 0 THEN [bands |-> INDICES, placeholder |-> FALSE]
             ELSE [bands |-> <<>>, placeholder |-> TRUE]

\* dekad_composite (l. 166-198), n the size of the joined collection: the
\* quality mosaic restricted to INDICES, or empty_img.
dekad_composite(n) ==
    IF n > 0 THEN [bands |-> INDICES, placeholder |-> FALSE] ELSE empty_img

HasBands(im) == \A k \in 1..Len(INDICES) : \E j \in 1..Len(im.bands) : im.bands[j] = INDICES[k]

\* img_final (l. 255-279) as far as the export loop reads it: its bands.
\* select(INDICES) of an image that lacks a band is an error, which the
\* model renders as an image without bands.
img_final(dek1, dek2, dek3) ==
    [bands |-> IF HasBands(dek1) /\ HasBands(dek2) /\ HasBands(dek3)
               THEN INDICES ELSE <<>>,
     empty |-> <<dek1.placeholder, dek2.placeholder, dek3.placeholder>>]

\* l. 244-281: the composites of one window and its date string.
ComposeWindow(n1, n2, n3, ok) ==
    /\ pc = "compose"
    /\ oi <= Len(Offsets)
    /\ IF ok
       THEN /\ img' = img_final(dekad_composite(n1), dekad_composite(n2),
                                dekad_composite(n3))
            /\ cloudy' = (cloudy \/ n1 = 0 \/ n2 = 0 \/ n3 = 0)
            /\ bi' = 1
            /\ pc' = "export"
            /\ fatal' = fatal
       ELSE /\ Abort("submit", "ee")
            /\ UNCHANGED <<img, cloudy, bi>>
    /\ UNCHANGED <<oi, tasks, driveVars, pollVars, fileVars, xferVars,
                   si, elapsed, outVars, sideVars>>

\* l. 282-297: one pass of "for band in INDICES".
StartTask(ok) ==
    /\ pc = "export"
    /\ LET band == INDICES[bi] IN
       IF \A j \in 1..Len(img.bands) : img.bands[j] # band
       THEN /\ Abort("no_band", "ee")
            /\ UNCHANGED <<tasks, jstate, out, bi, oi>>
       ELSE IF ~ok
       THEN /\ Abort("submit", "ee")
            /\ UNCHANGED <<tasks, jstate, out, bi, oi>>
       ELSE /\ tasks' = Append(tasks, fname(site, band, Offsets[oi]))
            /\ jstate' = Append(jstate, "RUNNING")
            /\ out' = Append(out, "absent")
            /\ fatal' = fatal
            /\ IF bi < Len(INDICES)
               THEN bi' = bi + 1 /\ oi' = oi /\ pc' = "export"
               ELSE /\ bi' = 1
                    /\ oi' = oi + 1
                    /\ pc' = IF oi < Len(Offsets) THEN "compose" ELSE "jp_start"
    /\ UNCHANGED <<img, cloudy, folder, old, children, ki, pending, lastEnd,
                   fileVars, xferVars, si, elapsed, outVars, sideVars>>

(* ----------------------- task wait (l. 299-312) ----------------------- *)
Terminal == {"COMPLETED", "FAILED", "CANCELLED", "CANCEL_REQUESTED"}

\* A flat budget that ignores the per-task allowance.
site_wait_flat == WAIT_TIME

\* site_wait (l. 302), in seconds.
site_wait == Max(WAIT_TIME, PER_TASK_WAIT * Len(tasks))

\* l. 299-304.
JobPollStart ==
    /\ pc = "jp_start"
    /\ total_tasks' = total_tasks + Len(tasks)
    /\ pending' = 1..Len(tasks)
    /\ elapsed' = 0
    /\ pc' = "jp"
    /\ img' = NoImg
    /\ cloudy' = FALSE
    /\ UNCHANGED <<jstate, lastEnd, driveVars, oi, bi, tasks, fileVars, xferVars,
                   si, fatal, scratch, uploaded, all_sent, all_errs, relay, mails,
                   sideVars>>

\* The condition of "while pending and time.time() - t0 < site_wait".
JobLoopCond == pending # {} /\ elapsed < site_wait * 1000

\* The tasks still pending after one pass of status queries.
StillPending == { t \in pending : jstate[t] \notin Terminal }

\* l. 306-309: query every pending task; ok is whether the queries return.
JobPollPass(ok) ==
    /\ pc = "jp"
    /\ JobLoopCond
    /\ IF ok
       THEN /\ pending' = StillPending
            /\ pc' = IF StillPending # {} THEN "jp_sleep" ELSE "jp"
            /\ fatal' = fatal
       ELSE /\ Abort("status", "ee")
            /\ pending' = pending
    /\ UNCHANGED <<jstate, lastEnd, driveVars, subVars, fileVars, xferVars,
                   si, elapsed, outVars, sideVars>>

\* l. 310: time.sleep(POLL_EVERY).
JobPollSleep ==
    /\ pc = "jp_sleep"
    /\ elapsed' = elapsed + POLL_EVERY * 1000
    /\ pc' = "jp"
    /\ UNCHANGED <<siteVars, si, fatal, outVars, sideVars>>

\* l. 305, 311-316: the loop is left; raise when tasks are still pending.
JobPollExit ==
    /\ pc = "jp"
    /\ ~JobLoopCond
    /\ IF pending # {}
       THEN /\ Abort("ee_timeout", "RuntimeError")
            /\ UNCHANGED <<want, elapsed, lastEnd>>
       ELSE /\ want' = Len(tasks)
            /\ elapsed' = 0
            /\ lastEnd' = 0
            /\ pc' = "fp"
            /\ fatal' = fatal
    /\ UNCHANGED <<jstate, pending, listed, ready, driveVars, subVars, xferVars,
                   si, outVars, sideVars>>

\* Earth Engine ends a task.  The script first reads a task's state in the
\* wait loop, so a task that ended earlier is one that has ended when the
\* loop begins.
JobEnd(t, st) ==
    /\ pc \in {"jp", "jp_sleep"}
    /\ t \in 1..Len(jstate)
    /\ jstate[t] = "RUNNING"
    /\ jstate' = [jstate EXCEPT ![t] = st]
    /\ lastEnd' = elapsed
    /\ UNCHANGED <<pending, driveVars, subVars, fileVars, xferVars,
                   runVars, sideVars>>

(* ----------------------- .tif wait (l. 314-327) ----------------------- *)
\* f.get("size", "0").
get_size(f) == IF f.size = "none" THEN "0" ELSE f.size

\* int() of the decimal strings Drive reports.
py_int(str) == CASE str = "0" -> 0 [] str = "1024" -> 1024 [] OTHER -> 0

\* A filter that takes any listed object for ready.
is_ready_any(f) == py_int(get_size(f)) >= 0

\* The test of the list comprehension of l. 322.
is_ready(f) == py_int(get_size(f)) > 0

ready_of(files) == SelectSeq(files, is_ready)

\* A loop without a ceiling: it sleeps until the outputs are there.
file_poll_next_patient(n, w, el) == IF n >= w THEN "break" ELSE "sleep"

\* l. 323-327: what follows a listing with n ready objects, w wanted, at el.
file_poll_next(n, w, el) ==
    IF n >= w THEN "break"
    ELSE IF el > FILE_TIMEOUT * 1000 THEN "raise" ELSE "sleep"

\* l. 317-327: one pass of the loop: list, filter, break, raise or sleep.
\* files and ready are assigned again before they are next read, so a pass
\* that ends in the sleep leaves them empty; t0 is not read after the break.
FilePollIter(outs, r) ==
    /\ pc = "fp"
    /\ LET x == _retry(outs, r)
           el == elapsed + x.slept
           nxt == file_poll_next(Len(ready_of(TifFiles)), want, el)
       IN
       IF x.kind # "return"
       THEN /\ Abort("drive", x.err)
            /\ elapsed' = el
            /\ UNCHANGED <<listed, ready>>
       ELSE /\ IF nxt = "sleep"
               THEN listed' = <<>> /\ ready' = <<>>
               ELSE listed' = TifFiles /\ ready' = ready_of(TifFiles)
            /\ IF nxt = "break"
               THEN pc' = "ftp" /\ elapsed' = 0 /\ fatal' = fatal
               ELSE IF nxt = "raise"
               THEN Abort("tif_timeout", "RuntimeError") /\ elapsed' = el
               ELSE pc' = "fp" /\ elapsed' = el + FILE_POLL_SLEEP * 1000 /\ fatal' = fatal
    /\ UNCHANGED <<want, driveVars, subVars, pollVars, xferVars, si, outVars, sideVars>>

\* Drive shows the object of a completed export, at first possibly without
\* a size or empty.  The script first lists the folder in the .tif wait.
Materialize(t, st) ==
    /\ pc = "fp"
    /\ t \in 1..Len(out)
    /\ jstate[t] = "COMPLETED"
    /\ out[t] = "absent"
    /\ out' = [out EXCEPT ![t] = st]
    /\ UNCHANGED <<folder, old, children, ki, subVars, pollVars, fileVars, xferVars,
                   runVars, sideVars>>

\* The object reaches its full size.
Grow(t) ==
    /\ pc = "fp"
    /\ t \in 1..Len(out)
    /\ out[t] \in {"nosize", "zero"}
    /\ out' = [out EXCEPT ![t] = "full"]
    /\ UNCHANGED <<folder, old, children, ki, subVars, pollVars, fileVars, xferVars,
                   runVars, sideVars>>

(* ------------------------ relay (l. 329-355) -------------------------- *)
\* The str(e) of a failed STOR.
ErrTexts == {"550 denied"}

NoFile == [name |-> "none", bytes |-> 0]

\* l. 330-336: open the FTP connection and enter the site's directory.
FtpOpen(ok) ==
    /\ pc = "ftp"
    /\ IF ok
       THEN /\ sent' = <<>>
            /\ errs' = <<>>
            /\ fi' = 1
            /\ chunks' = 0
            /\ pc' = IF Len(ready) > 0 THEN "dl" ELSE "quit"
            /\ fatal' = fatal
       ELSE /\ Abort("ftp", "connect")
            /\ UNCHANGED xferVars
    /\ UNCHANGED <<driveVars, subVars, pollVars, fileVars, si, elapsed, outVars, sideVars>>

\* The name and the /tmp path of the file being relayed.
cur == ready[fi]

\* /tmp without the file called nm.
Removed(files, nm) == { f \in files : f.name # nm }

\* l. 339-341 and drv_download (l. 113-119): open(path, "wb") on the first
\* pass, then one _retry(dl.next_chunk).  done is what next_chunk reports,
\* bytes what the scratch file holds once the download is done.
DownloadChunk(outs, r, done, bytes) ==
    /\ pc = "dl"
    /\ LET x == _retry(outs, r)
           last == done \/ chunks + 1 >= MaxChunks
       IN
       IF x.kind # "return"
       THEN /\ Abort("download", x.err)
            /\ scratch' = Removed(scratch, cur.name) \cup {[name |-> cur.name, bytes |-> 0]}
            /\ relay' = Append(relay, [site |-> site, name |-> cur.name,
                                       dl |-> "failed", up |-> "none"])
            /\ chunks' = chunks
       ELSE /\ scratch' = Removed(scratch, cur.name) \cup
                          {[name |-> cur.name, bytes |-> IF last THEN bytes ELSE 0]}
            /\ chunks' = IF last THEN 0 ELSE chunks + 1
            /\ pc' = IF last THEN "up" ELSE "dl"
            /\ relay' = relay
            /\ fatal' = fatal
    /\ UNCHANGED <<fi, sent, errs, driveVars, subVars, pollVars, fileVars, si, elapsed,
                   uploaded, all_sent, all_errs, total_tasks, mails, sideVars>>

\* A handler that counts a failed file as sent.
upload_lists_lenient(res, key) ==
    [sent |-> Append(sent, key), errs |-> errs]

\* l. 342-347: the lists after storbinary ended as res, for the file key.
upload_lists(res, key) ==
    IF res = "ok" THEN [sent |-> Append(sent, key), errs |-> errs]
                  ELSE [sent |-> sent, errs |-> Append(errs, <<key, res>>)]

\* l. 342-349: STOR the scratch file, record the outcome, remove the file.
Upload(res) ==
    /\ pc = "up"
    /\ LET key == <<site, cur.name>>
           lists == upload_lists(res, key)
           tmp == CHOOSE f \in scratch : f.name = cur.name
       IN
       /\ sent' = lists.sent
       /\ errs' = lists.errs
       /\ uploaded' = IF res = "ok" THEN tmp ELSE uploaded
       /\ relay' = Append(relay, [site |-> site, name |-> cur.name,
                                  dl |-> "ok", up |-> res])
       /\ scratch' = Removed(scratch, cur.name)
    /\ fi' = fi + 1
    /\ chunks' = 0
    /\ pc' = IF fi < Len(ready) THEN "dl" ELSE "quit"
    /\ UNCHANGED <<driveVars, subVars, pollVars, fileVars, si, fatal, elapsed,
                   all_sent, all_errs, total_tasks, mails, sideVars>>

\* l. 351-355, then the next pass of "for site_id in SITE_IDS".
FtpQuit(ok) ==
    /\ pc = "quit"
    /\ IF ok
       THEN /\ all_sent' = all_sent \o sent
            /\ all_errs' = all_errs \o errs
            /\ uploaded' = NoFile
            /\ fatal' = fatal
            /\ IF si < Len(SITE_IDS)
               THEN si' = si + 1 /\ pc' = "site" /\ SiteReset
               ELSE si' = si /\ pc' = "mail" /\ UNCHANGED siteVars
       ELSE /\ Abort("ftp", "quit")
            /\ UNCHANGED <<all_sent, all_errs, uploaded, si, siteVars>>
    /\ UNCHANGED <<elapsed, scratch, total_tasks, relay, mails, sideVars>>

(* ------------------------ report (l. 357-379) ------------------------- *)
\* l. 358-366.
body ==
    [exports |-> total_tasks, sites |-> Len(SITE_IDS), sent |-> all_sent,
     errors |-> all_errs]

\* A subject that does not look at the errors.
subject_plain == "Succes"

\* l. 371.
subject == IF all_errs = <<>> THEN "Succes" ELSE "Succes (avec erreurs)"

\* l. 368-379.
SendMail(ok) ==
    /\ pc = "mail"
    /\ IF ok
       THEN /\ mails' = Append(mails, [subject |-> subject, body |-> body])
            /\ pc' = "done"
            /\ fatal' = fatal
       ELSE /\ Abort("smtp", "smtplib")
            /\ mails' = mails
    /\ UNCHANGED <<siteVars, si, elapsed, scratch, uploaded, all_sent, all_errs,
                   total_tasks, relay, sideVars>>

(* ------------------------------ the run ------------------------------- *)
OldStates == [OldIds -> {"absent"} \cup OldKinds]

Script ==
    \/ \E ok \in BOOLEAN : SiteLookup(ok)
    \/ \E outs \in CallRuns, r \in JitterSamples, ex \in BOOLEAN : FolderList(outs, r, ex)
    \/ \E outs \in CallRuns, r \in JitterSamples : FolderCreate(outs, r)
    \/ \E outs \in CallRuns, r \in JitterSamples, found \in OldStates :
          ChildrenList(outs, r, found)
    \/ \E outs \in DelRuns, r \in JitterSamples : DeleteKid(outs, r)
    \/ \E n1, n2, n3 \in 0..MaxImages, ok \in BOOLEAN : ComposeWindow(n1, n2, n3, ok)
    \/ \E ok \in BOOLEAN : StartTask(ok)
    \/ JobPollStart
    \/ \E ok \in BOOLEAN : JobPollPass(ok)
    \/ JobPollSleep
    \/ JobPollExit
    \/ \E outs \in CallRuns, r \in JitterSamples : FilePollIter(outs, r)
    \/ \E ok \in BOOLEAN : FtpOpen(ok)
    \/ \E outs \in CallRuns, r \in JitterSamples, done \in BOOLEAN, bytes \in {0, 1024} :
          DownloadChunk(outs, r, done, bytes)
    \/ \E res \in {"ok"} \cup ErrTexts : Upload(res)
    \/ \E ok \in BOOLEAN : FtpQuit(ok)
    \/ \E ok \in BOOLEAN : SendMail(ok)

World ==
    \/ \E t \in 1..(Len(Offsets) * Len(INDICES)), st \in Terminal : JobEnd(t, st)
    \/ \E t \in 1..(Len(Offsets) * Len(INDICES)), st \in {"nosize", "zero", "full"} :
          Materialize(t, st)
    \/ \E t \in 1..(Len(Offsets) * Len(INDICES)) : Grow(t)

Next == Script \/ World

Spec == Init /\ [][Next]_vars

(* ------------------- _retry and drv_del, call by call ----------------- *)
\* The wrapped operations traced: a listing and a delete.
TracedOps == {"list", "delete"}

InitRetry ==
    /\ ScriptInit
    /\ r_op \in TracedOps
    /\ r_i = 1
    /\ r_state = "call"
    /\ r_err = "none"
    /\ r_last = "none"
    /\ r_log = <<>>
    /\ PixelIdle

\* One pass of "for i in range(1, 7)": the call, which ends as o, and what
\* the except clause does; r is the sample of random.random().  An exception
\* that leaves _retry meets the except clause of drv_del when the operation
\* is a delete.
RetryCall(o, r) ==
    /\ r_state = "call"
    /\ LET s == retry_step(r_i, o)
           ev == IF o = "ok" THEN "call_ok" ELSE "call_failed"
       IN
       /\ r_last' = o
       /\ r_err' = s.err
       /\ IF s.kind = "sleep"
          THEN /\ r_log' = r_log \o <<ev, "sleep">>
               /\ elapsed' = elapsed + delay(r_i, r)
               /\ r_i' = r_i + 1
               /\ r_state' = "call"
          ELSE /\ r_log' = Append(r_log, ev)
               /\ elapsed' = elapsed
               /\ r_i' = r_i
               /\ r_state' = IF s.kind = "return" THEN "returned"
                             ELSE IF r_op = "delete" THEN del_handler(s.err)
                             ELSE "raise"
    /\ r_op' = r_op
    /\ UNCHANGED <<siteVars, pc, si, fatal, outVars, px>>

\* The caller goes on to its next wrapped call.
RetryAgain(op) ==
    /\ r_state \in {"returned", "skipped"}
    /\ r_op' = op
    /\ r_i' = 1
    /\ r_state' = "call"
    /\ r_err' = "none"
    /\ r_last' = "none"
    /\ r_log' = <<>>
    /\ elapsed' = 0
    /\ UNCHANGED <<siteVars, pc, si, fatal, outVars, px>>

NextRetry ==
    \/ \E o \in Outcomes, r \in JitterSamples : RetryCall(o, r)
    \/ \E op \in TracedOps : RetryAgain(op)

SpecRetry == InitRetry /\ [][NextRetry]_vars

\* The script runs on: the interpreter takes the next step of the program
\* whenever there is one.
FairSpec == Spec /\ WF_vars(Script)

(* ------------- one pixel through the compositing (l. 122-279) --------- *)
\* Band values are floats; the model counts them in thirty-thousandths, a
\* third of the step of the exported integers, so that a product by SCALE
\* stays a machine integer.
Unit == 30000

\* Largest number of source images of one dekad that cover the pixel.
MaxObs == 2

CLOUD_PROB_THRESHOLD == 40
QA_CLOUD_BIT == 10
QA_CIRRUS_BIT == 11
SCALE == 10000
NO_OBS == -32767
NO_DATA == -32768

\* A pixel of an image: masked or not, and its value.  The value under a
\* mask is never read.
Masked == [m |-> TRUE, v |-> 0]
Pix(v) == [m |-> FALSE, v |-> v]

\* qa.bitwiseAnd(1 << b).
bitwiseAnd(qa, b) == ((qa \div Pow2(b)) % 2) * Pow2(b)

\* Index values of a source image at the pixel (add_all_indices, l. 132-164):
\* below -1, between -1 and 1, between 1 and 3.2, above 3.2.
PixVals == {-45000, 15704, 75000, 120000}

\* The source images: cloud-free ones, and ones the mask rejects for their
\* cloud probability or for a QA60 bit.
ObsSet ==
    [prob : {10}, qa : {0}, val : PixVals] \cup
    [prob : {30}, qa : {0}, val : {15704, 120000}] \cup
    [prob : {50}, qa : {0}, val : {15704}] \cup
    [prob : {10}, qa : {Pow2(QA_CLOUD_BIT), Pow2(QA_CIRRUS_BIT)}, val : {15704}]

RECURSIVE SeqsUpTo(_, _)
SeqsUpTo(S, n) ==
    IF n = 0 THEN {<<>>}
    ELSE SeqsUpTo(S, n - 1) \cup { Append(q, x) : q \in SeqsUpTo(S, n - 1), x \in S }

\* The joined collection of a dekad at the pixel.
ObsSeqs == SeqsUpTo(ObsSet, MaxObs)

\* mask_cloud_shadow (l. 122-130): the pixel of the image after updateMask.
mask_cloud_shadow(o) ==
    IF /\ o.prob < CLOUD_PROB_THRESHOLD
       /\ bitwiseAnd(o.qa, QA_CLOUD_BIT) = 0
       /\ bitwiseAnd(o.qa, QA_CIRRUS_BIT) = 0
    THEN Pix(o.val) ELSE Masked

\* l. 186-190: probability x -1 + 100, a band added after the masking and
\* taken from the probability image, so it carries no mask of its own.
cloud_score(o) == o.prob * (-1) + 100

\* qualityMosaic orders the images of the pixel by cloud_score.  The images
\* it orders are either all of them or those whose bands are unmasked at
\* the pixel; both are kept.
MosaicModes == {"all", "unmasked"}
Candidates(obs, mode) ==
    { k \in 1..Len(obs) : mode = "all" \/ ~mask_cloud_shadow(obs[k]).m }
Best(obs, mode) ==
    { k \in Candidates(obs, mode) :
         \A j \in Candidates(obs, mode) : cloud_score(obs[k]) >= cloud_score(obs[j]) }

\* The image a mosaic can take at the pixel: one of the best, 0 for none.
Picks(obs, mode) == IF Best(obs, mode) = {} THEN {0} ELSE Best(obs, mode)


\* dekad_composite (l. 194-197) at the pixel: the pixel of image k of the
\* mosaic when the collection is not empty, else that of empty_img, which
\* is masked everywhere.
dekad_pixel(obs, k) ==
    IF Len(obs) > 0
    THEN IF k = 0 THEN Masked ELSE mask_cloud_shadow(obs[k])
    ELSE Masked

\* Earth Engine's image operations at one pixel.  A binary operation is
\* masked where an operand is.
constant(c) == Pix(c * Unit)
add(a, b) == IF a.m \/ b.m THEN Masked ELSE Pix(a.v + b.v)
divide(a, n) == IF a.m THEN Masked ELSE Pix(a.v \div n)
multiply(a, n) == IF a.m THEN Masked ELSE Pix(a.v * n)
mask(a) == IF a.m THEN constant(0) ELSE constant(1)
Not(a) == IF a.m THEN Masked ELSE IF a.v = 0 THEN constant(1) ELSE constant(0)
clamp(a, lo, hi) ==
    IF a.m THEN Masked ELSE Pix(IF a.v < lo THEN lo ELSE IF a.v > hi THEN hi ELSE a.v)
unmask(a, c) == IF a.m THEN constant(c) ELSE a
updateMask(a, mk) == IF a.m \/ mk.m \/ mk.v = 0 THEN Masked ELSE a

\* round(): the nearest integer, a half going away from zero.
round(a) ==
    IF a.m THEN Masked
    ELSE IF a.v >= 0 THEN Pix(((a.v + Unit \div 2) \div Unit) * Unit)
         ELSE Pix(-(((-a.v) + Unit \div 2) \div Unit) * Unit)

\* toInt16(): the fraction is dropped and the value kept within 16 bits.
toInt16(a) ==
    IF a.m THEN Masked
    ELSE LET n == IF a.v >= 0 THEN a.v \div Unit ELSE -((-a.v) \div Unit) IN
         constant(IF n > 32767 THEN 32767 ELSE IF n < -32768 THEN -32768 ELSE n)

\* input.where(test, value): value where test is nonzero, else input; where
\* test or value is masked the input is used, and where the input is masked
\* nothing is done.
where(input, test, value) ==
    IF input.m THEN input
    ELSE IF test.m \/ value.m THEN input
    ELSE IF test.v # 0 THEN value ELSE input

\* l. 255.
filled(dek1, dek2, dek3) == where(dek2, Not(mask(dek2)), divide(add(dek1, dek3), 2))

\* The bands of a pixel followed by the model: LAI and one of the others.
PixelBands == {"NDVI", "LAI"}

\* An LAI range of [-1, 7].
lai_fixed_wide(f) == clamp(f, -1 * Unit, 7 * Unit)

\* l. 259 and l. 261.
bounded_all(f) == clamp(f, -1 * Unit, 1 * Unit)
lai_fixed(f) == clamp(f, -1 * Unit, (32 * Unit) \div 10)

\* l. 262: the LAI band of bounded_all is overwritten by lai_fixed.
bounded(f, band) == IF band = "LAI" THEN lai_fixed(f) ELSE bounded_all(f)

\* l. 265 and l. 269.
scaled(b) == round(multiply(b, SCALE))
img_site(sc) == unmask(sc, NO_OBS)

\* l. 272-273: 1 on the polygon, masked elsewhere.
mask_poly(inside) == IF inside THEN constant(1) ELSE Masked
img_masked(st, inside) == updateMask(st, mask_poly(inside))

\* l. 278-279.
img_full == toInt16(constant(NO_DATA))
final_pixel(im) == where(img_full, mask(im), toInt16(im))


\* A pixel of the bounding box and a band are followed from the three dekad
\* composites of a window to the exported value.
InitPixel ==
    /\ ScriptInit
    /\ RetryIdle
    /\ px \in [stage : {"dek"}, inside : BOOLEAN, band : PixelBands, mode : MosaicModes,
               dek : {<<>>}, seen : {<<>>}, fill : {Masked}, site : {Masked}, out : {0}]

\* l. 250-252: the next dekad composite, from the images obs of the dekad,
\* the mosaic taking image k.  seen records whether obs held an image that
\* is cloud-free and QA-clean at the pixel.
Composite(obs, k) ==
    /\ px.stage = "dek"
    /\ k \in Picks(obs, px.mode)
    /\ px' = [px EXCEPT
                !.dek = Append(@, dekad_pixel(obs, k)),
                !.seen = Append(@, \E j \in 1..Len(obs) : ~mask_cloud_shadow(obs[j]).m),
                !.stage = IF Len(px.dek) = 2 THEN "fill" ELSE "dek"]
    /\ UNCHANGED <<siteVars, runVars, retryVars>>

\* l. 255.
GapFill ==
    /\ px.stage = "fill"
    /\ px' = [px EXCEPT !.fill = filled(px.dek[1], px.dek[2], px.dek[3]),
                        !.stage = "quant"]
    /\ UNCHANGED <<siteVars, runVars, retryVars>>

\* l. 259-269.
Quantize ==
    /\ px.stage = "quant"
    /\ px' = [px EXCEPT !.site = img_site(scaled(bounded(px.fill, px.band))),
                        !.stage = "overlay"]
    /\ UNCHANGED <<siteVars, runVars, retryVars>>

\* l. 272-279: the value of the pixel in the exported raster.
Overlay ==
    /\ px.stage = "overlay"
    /\ px' = [px EXCEPT !.out = final_pixel(img_masked(px.site, px.inside)).v \div Unit,
                        !.stage = "done"]
    /\ UNCHANGED <<siteVars, runVars, retryVars>>

NextPixel ==
    \/ \E obs \in ObsSeqs, k \in 0..MaxObs : Composite(obs, k)
    \/ GapFill
    \/ Quantize
    \/ Overlay

SpecPixel == InitPixel /\ [][NextPixel]_vars

(* ============================== claims ================================ *)
InWait == pc \in {"jp", "jp_sleep"}
InRelay == pc \in {"ftp", "dl", "up", "quit"}
Ended == pc \in {"done", "aborted"}

\* max(WAIT_TIME, PER_TASK_WAIT x N) for N tasks, in seconds.
Budget(n) == IF WAIT_TIME >= PER_TASK_WAIT * n THEN WAIT_TIME ELSE PER_TASK_WAIT * n

\* The relay records of the site being processed.
SiteRelay == SelectSeq(relay, LAMBDA e : e.site = site)

\* The listed objects that have a size greater than zero.
Sized(files) == { i \in 1..Len(files) : files[i].size \notin {"none", "0"} }

(* C1: job poller timeout.  The timeout error of the task wait is raised
   with tasks still pending, when the budget max(WAIT_TIME, PER_TASK_WAIT x N)
   has elapsed and less than one POLL_EVERY after it; the wait loop never
   runs past that point; once the run has been aborted no step of the script
   executes (no listing, download, upload or report, for this region or a
   later one); a running task stays pending, and the wait with tasks pending
   ends with none pending or with the run aborted. *)
C1_TimeoutWindow ==
    /\ fatal.kind = "ee_timeout" =>
          /\ pending # {}
          /\ elapsed >= Budget(Len(tasks)) * 1000
          /\ elapsed < (Budget(Len(tasks)) + POLL_EVERY) * 1000
          /\ listed = <<>> /\ ready = <<>> /\ SiteRelay = <<>> /\ mails = <<>>
    /\ InWait => \A t \in 1..Len(jstate) : jstate[t] = "RUNNING" => t \in pending
    /\ pc = "jp_sleep" => elapsed < Budget(Len(tasks)) * 1000
    /\ pc = "jp" => elapsed < (Budget(Len(tasks)) + POLL_EVERY) * 1000

C1_AbortStops == pc = "aborted" => UNCHANGED vars

C1_TimeoutRaised ==
    (InWait /\ pending # {}) ~> ((pc = "jp" /\ pending = {}) \/ pc = "aborted")

C1_JobPollerTimeout ==
    /\ []C1_TimeoutWindow
    /\ [][C1_AbortStops]_vars
    /\ C1_TimeoutRaised

\* The timeout is raised for a task that is still running, with a later
\* region left unprocessed.
C1_Witness ==
    /\ fatal.kind = "ee_timeout"
    /\ si < Len(SITE_IDS)
    /\ \E t \in pending : jstate[t] = "RUNNING"

(* C2: job poller bounded response.  When every task of the region has
   reached a terminal state before k x POLL_EVERY seconds of the wait, with
   k x POLL_EVERY within the budget, the wait loop is left by
   (k+1) x POLL_EVERY seconds with nothing pending and without the timeout
   error. *)
C2_BoundedResponse ==
    LET k == (lastEnd \div (POLL_EVERY * 1000)) + 1
        left == (pc = "jp" /\ ~JobLoopCond) \/ fatal.kind = "ee_timeout"
    IN
    ( /\ left
      /\ Len(tasks) > 0
      /\ \A t \in 1..Len(jstate) : jstate[t] \in Terminal
      /\ k * POLL_EVERY <= Budget(Len(tasks)) )
    => /\ fatal.kind # "ee_timeout"
       /\ pending = {}
       /\ elapsed <= (k + 1) * POLL_EVERY * 1000

(* C3: output materialization poller.  The relay of a region starts only
   after a listing that showed at least as many objects with a size greater
   than zero as tasks were started; every object counted as ready was listed
   with a size greater than zero (size zero or no size never counts); and
   the timeout error of the .tif wait is raised after more than FILE_TIMEOUT
   seconds on a listing short of that count, with no transfer for the
   region. *)
C3_ReadyBeforeTransfer ==
    /\ (InRelay \/ pc \in {"mail", "done"} \/ SiteRelay # <<>>) =>
          /\ Cardinality(Sized(listed)) >= Len(tasks)
          /\ Len(ready) >= Len(tasks)
    /\ \A i \in 1..Len(ready) :
          /\ ready[i].size \notin {"none", "0"}
          /\ \E j \in 1..Len(listed) : listed[j] = ready[i]
    /\ fatal.kind = "tif_timeout" =>
          /\ elapsed > FILE_TIMEOUT * 1000
          /\ Cardinality(Sized(listed)) < Len(tasks)
          /\ SiteRelay = <<>>
          /\ mails = <<>>

\* The relay begins after a listing that held an object without a size or of
\* size zero, which was not counted.
C3_Witness ==
    /\ pc = "ftp"
    /\ \E j \in 1..Len(listed) : listed[j].size \in {"none", "0"}

(* C4: relay, upload failure.  A failed upload does not stop the loop: while
   the region is relayed every ready file before the current one has been
   attempted, and all of them once the loop is over; and the report lists
   each file whose upload failed, with its error text, among the errors and
   not among the files sent, and every other relayed file among the files
   sent. *)
C4_UploadFailure ==
    /\ pc \in {"dl", "up"} => Len(SiteRelay) = fi - 1
    /\ pc = "quit" => Len(SiteRelay) = Len(ready)
    /\ pc \in {"dl", "up", "quit"} =>
          \A i \in 1..Len(SiteRelay) : SiteRelay[i].name = ready[i].name
    /\ pc = "done" =>
          LET m == mails[Len(mails)].body IN
          /\ Len(m.sent) + Len(m.errors) = Len(relay)
          /\ \A i \in 1..Len(relay) :
                LET key == <<relay[i].site, relay[i].name>> IN
                IF relay[i].up = "ok"
                THEN /\ \E j \in 1..Len(m.sent) : m.sent[j] = key
                     /\ \A j \in 1..Len(m.errors) : m.errors[j][1] # key
                ELSE /\ \E j \in 1..Len(m.errors) : m.errors[j] = <<key, relay[i].up>>
                     /\ \A j \in 1..Len(m.sent) : m.sent[j] # key

\* The report is sent after an upload failed and a later file of the same
\* region was sent.
C4_Witness ==
    /\ pc = "done"
    /\ \E i \in 1..(Len(relay) - 1) :
          /\ relay[i].up \in ErrTexts
          /\ relay[i + 1].site = relay[i].site
          /\ relay[i + 1].up = "ok"

(* C5: relay, any per-file failure.  A file whose download failed (after the
   retries) or whose upload failed is recorded as a (file, error) failure,
   and the run is not aborted by it. *)
C5_FailureRecorded ==
    /\ fatal.kind # "download"
    /\ \A i \in 1..Len(relay) :
          (relay[i].dl = "failed" \/ relay[i].up \in ErrTexts) =>
             \E j \in 1..Len(all_errs \o errs) :
                (all_errs \o errs)[j][1] = <<relay[i].site, relay[i].name>>

(* C6: scratch cleanup.  When the relay of a file has ended its scratch
   copy is gone, and no scratch file is left when the run has ended,
   normally or by an error. *)
C6_ScratchClean ==
    /\ Ended => scratch = {}
    /\ (pc = "dl" /\ chunks = 0) => scratch = {}
    /\ pc = "quit" => scratch = {}

(* C7: best-effort delete.  A delete that fails with 403 or 404 is skipped
   by drv_del after that one call, without a retry and without a backoff
   sleep; only these two failures are skipped. *)
C7_DeleteOnce ==
    r_op = "delete" =>
       /\ r_last \in {"http403", "http404"} =>
             r_state = "skipped" /\ r_log = <<"call_failed">>
       /\ r_state = "skipped" => r_err \in {"http403", "http404"}

\* The calls _retry has made.
Calls == { i \in 1..Len(r_log) : r_log[i] # "sleep" }

(* C8: backoff-retry executor.  _retry makes at most 6 calls; exactly one
   sleep separates two consecutive calls and none follows the last; it
   returns on the first call that succeeds; it raises the failure of its
   last call unchanged, and a retryable failure only from the 6th call. *)
C8_RetryBudget ==
    /\ Cardinality(Calls) <= RETRY_LAST
    /\ Len(r_log) > 0 => r_log[1] # "sleep"
    /\ \A i \in 1..(Len(r_log) - 1) :
          /\ (r_log[i] = "sleep") # (r_log[i + 1] = "sleep")
          /\ r_log[i] # "call_ok"
    /\ (r_state = "call" /\ Len(r_log) > 0) => r_log[Len(r_log)] = "sleep"
    /\ r_state = "returned" => r_log[Len(r_log)] = "call_ok" /\ r_last = "ok"
    /\ r_state \in {"raise", "skipped"} =>
          /\ r_log[Len(r_log)] = "call_failed"
          /\ r_err = r_last
          /\ r_last \in Retryable => Cardinality(Calls) = RETRY_LAST

\* All six calls failed and the last failure left _retry.
C8_Witness ==
    /\ r_state = "raise"
    /\ Cardinality(Calls) = RETRY_LAST
    /\ r_err = "ssl"

(* C9: exactly one notification per run.  A run that has ended has sent
   exactly one message: the success message when no transfer failed, the
   success-with-errors message when some did, and a critical-failure
   message when the run was aborted by a job timeout, an output timeout or
   a submission failure. *)
C9_OneNotification ==
    /\ pc = "done" =>
          /\ Len(mails) = 1
          /\ mails[1].subject =
                IF \E i \in 1..Len(relay) : relay[i].up # "ok"
                THEN "Succes (avec erreurs)" ELSE "Succes"
    /\ (pc = "aborted" /\ fatal.kind \in {"ee_timeout", "tif_timeout", "submit"}) =>
          /\ Len(mails) = 1
          /\ mails[1].subject \notin {"Succes", "Succes (avec erreurs)"}

\* The tasks of site s in window order, then declared band order.
ExpectedTasks(s) ==
    [k \in 1..(Len(Offsets) * Len(INDICES)) |->
        fname(s, INDICES[((k - 1) % Len(INDICES)) + 1],
              Offsets[((k - 1) \div Len(INDICES)) + 1])]

(* C10: job count.  The tasks started for a region are one per (window,
   band), in window order then declared band order, whatever the number of
   source images of a dekad: a dekad without images never makes an export
   fail for a missing band, and when the export loop is over the region has
   (number of offsets) x (number of bands) tasks. *)
C10_JobCount ==
    /\ fatal.kind # "no_band"
    /\ pc = "compose" =>
          tasks = SubSeq(ExpectedTasks(site), 1, (oi - 1) * Len(INDICES))
    /\ pc = "export" =>
          tasks = SubSeq(ExpectedTasks(site), 1, (oi - 1) * Len(INDICES) + bi - 1)
    /\ (pc = "jp_start" \/ InWait \/ pc = "fp" \/ InRelay) =>
          /\ tasks = ExpectedTasks(site)
          /\ Len(tasks) = Len(Offsets) * Len(INDICES)

\* The export loop is over for a region whose three dekads had no image.
C10_Witness ==
    /\ pc = "jp_start"
    /\ img.empty = <<TRUE, TRUE, TRUE>>
    /\ Len(tasks) = Len(Offsets) * Len(INDICES)

(* C11: end-to-end counts.  When the relay of a region is over, the files
   whose transfer was attempted are as many as the tasks started for the
   region, and they are the objects those tasks wrote. *)
C11_EndToEndCounts ==
    pc = "quit" =>
       /\ Len(SiteRelay) = Len(tasks)
       /\ Len(ready) = Len(tasks)
       /\ \A i \in 1..Len(ready) : ready[i].id[1] = "out"

\* The average of the outer dekads of the pixel, when both have a value.
Average == divide(add(px.dek[1], px.dek[3]), 2)

(* C12: NoData codes.  The exported value -32768 is that of a pixel outside
   the polygon and of no other; -32767 is that of a pixel inside the polygon
   for which the window (its three dekads) held no cloud-free, QA-clean
   observation; a pixel inside the polygon for which the window held one is
   not exported as -32767. *)
C12_NoDataCodes ==
    px.stage = "done" =>
       /\ px.out = NO_DATA <=> ~px.inside
       /\ px.out = NO_OBS => (px.inside /\ \A d \in 1..3 : ~px.seen[d])
       /\ (px.inside /\ \E d \in 1..3 : px.seen[d]) => px.out # NO_OBS

(* C13: gap interpolation.  Where the middle dekad is missing and the outer
   ones have a value, the gap-filled pixel is their average; where the
   middle dekad has a value the gap-filled pixel is that value. *)
C13_GapInterpolation ==
    px.stage \in {"quant", "overlay", "done"} =>
       /\ (px.dek[2].m /\ ~Average.m) => px.fill = Average
       /\ ~px.dek[2].m => px.fill = px.dek[2]

\* round(lower x 10000) and round(upper x 10000) of a band.
QuantLow == -1 * SCALE
QuantHigh(band) == IF band = "LAI" THEN (32 * SCALE) \div 10 ELSE 1 * SCALE

(* C14: quantization range.  The exported value of a pixel is -32768,
   -32767 or within [round(lower x 10000), round(upper x 10000)] of its
   band; the value of a pixel that has one after the gap filling is within
   that range, hence neither reserved code and at most 32000 in magnitude;
   and the narrowing to 16 bits changes no value. *)
C14_QuantizationRange ==
    /\ px.stage \in {"overlay", "done"} =>
          /\ toInt16(px.site) = px.site
          /\ ~px.fill.m =>
                /\ px.site.v \div Unit \in QuantLow..QuantHigh(px.band)
                /\ px.site.v = (px.site.v \div Unit) * Unit
    /\ px.stage = "done" =>
          /\ px.out \in {NO_DATA, NO_OBS} \cup (QuantLow..QuantHigh(px.band))
          /\ (px.inside /\ ~px.fill.m) =>
                /\ px.out \in QuantLow..QuantHigh(px.band)
                /\ px.out \notin {NO_DATA, NO_OBS}
                /\ px.out <= 32000 /\ px.out >= -32000
                /\ px.out * Unit = px.site.v

\* An LAI above 3.2 is exported as 32000, and a value between two steps of
\* the integer scale as the nearest integer.
C14_Witness ==
    /\ px.stage = "done"
    /\ px.inside
    /\ ~px.fill.m
    /\ \/ px.band = "LAI" /\ px.fill.v > (32 * Unit) \div 10 /\ px.out = 32000
       \/ (px.fill.v * SCALE) % Unit # 0 /\ px.out = 5235

(* C15: zero-byte download.  A scratch file of zero bytes is not handed to
   the upload (its download is made again, or fails), and no file of zero
   bytes is stored at the destination. *)
C15_ZeroByteDownload ==
    /\ pc = "up" => \A f \in scratch : f.name = cur.name => f.bytes > 0
    /\ uploaded # NoFile => uploaded.bytes > 0

(* C16: container emptied.  Once a task of a region has been started the
   region's folder holds no object from before the run, and every object
   counted as ready, or relayed, for the region was written by one of its
   tasks. *)
C16_ContainerEmptied ==
    /\ Len(tasks) > 0 => \A n \in OldIds : old[n] = "absent"
    /\ \A i \in 1..Len(ready) :
          \E t \in 1..Len(tasks) : ready[i].id = <<"out", t>> /\ ready[i].name.fname = tasks[t]
    /\ \A i \in 1..Len(SiteRelay) :
          \E t \in 1..Len(tasks) : SiteRelay[i].name.fname = tasks[t]

(* C17: timeout only for running tasks.  When the timeout error of the task
   wait is raised, some task of the region is not in a terminal state at
   Earth Engine. *)
C17_TimeoutOnlyRunning ==
    fatal.kind = "ee_timeout" => \E t \in 1..Len(jstate) : jstate[t] \notin Terminal

\* The step of a region the script is in: 1 empty the folder, 2 start the
\* tasks, 3 wait for the tasks, 4 wait for the outputs, 5 relay; 6 is the
\* report, 0 the aborted run.
StepOf(p) ==
    CASE p \in {"site", "folder", "create", "children", "empty"} -> 1
      [] p \in {"compose", "export", "jp_start"} -> 2
      [] p \in {"jp", "jp_sleep"} -> 3
      [] p = "fp" -> 4
      [] p \in {"ftp", "dl", "up", "quit"} -> 5
      [] p \in {"mail", "done"} -> 6
      [] OTHER -> 0

\* The index of the region called s.
SiteIndex(s) == CHOOSE k \in 1..Len(SITE_IDS) : SITE_IDS[k] = s

\* What is held of the regions at any time: tasks of the current region
\* only; transfers of the regions up to the current one, in region order,
\* and none of the current region before its relay step.
C18_Order ==
    /\ \A t \in 1..Len(tasks) : tasks[t][1] = site
    /\ \A i \in 1..Len(relay) :
          /\ SiteIndex(relay[i].site) <= si
          /\ StepOf(pc) \in 1..4 => SiteIndex(relay[i].site) < si
          /\ i > 1 => SiteIndex(relay[i - 1].site) <= SiteIndex(relay[i].site)

\* What a step of the run can do.
C18_Step ==
    /\ pc = "aborted" => UNCHANGED vars
    /\ pc' = "aborted" => si' = si
    /\ pc' # "aborted" =>
          \/ si' = si /\ StepOf(pc') \in {StepOf(pc), StepOf(pc) + 1}
          \/ si' = si + 1 /\ pc = "quit" /\ pc' = "site" /\ tasks' = <<>>
    /\ StepOf(pc') = 6 => si' = Len(SITE_IDS)
    /\ (tasks' # tasks /\ si' = si) =>
          /\ StepOf(pc) = 2
          /\ \E band \in 1..Len(INDICES), off \in 1..Len(Offsets) :
                tasks' = Append(tasks, fname(site, INDICES[band], Offsets[off]))
    /\ relay' # relay =>
          /\ StepOf(pc) = 5
          /\ Len(relay') = Len(relay) + 1
          /\ relay'[Len(relay')].site = site

(* C18: sequential regions.  The regions are processed in list order, one
   at a time, each through the steps empty the folder, start the tasks,
   wait for the tasks, wait for the outputs, relay, in that order; a task is
   started only for the current region, whose predecessors have all ended
   their relay; and after a fatal error no region is started. *)
C18_SequentialRegions == []C18_Order /\ [][C18_Step]_vars

\* The tasks of the second region are being started after files of the
\* first were relayed.
C18_Witness ==
    /\ si = 2
    /\ pc = "export"
    /\ Len(tasks) > 0
    /\ Len(relay) > 0

\* The longest time the backoff sleeps of one _retry can add up to, the
\* sample of random.random() being below 1.
MaxBackoff == _retry(RunOf(RETRY_LAST - 1, "ssl", "ok"), 1000).slept

\* The waits as the claim bounds them: the .tif wait is over, by its break
\* or its error, FILE_TIMEOUT plus one poll interval after it began.
C19_LoopCeilings ==
    /\ InWait => elapsed < (Budget(Len(tasks)) + POLL_EVERY) * 1000
    /\ fatal.kind = "ee_timeout" => elapsed < (Budget(Len(tasks)) + POLL_EVERY) * 1000
    /\ pc = "fp" => elapsed <= (FILE_TIMEOUT + POLL_EVERY) * 1000
    /\ fatal.kind = "tif_timeout" => elapsed <= (FILE_TIMEOUT + POLL_EVERY) * 1000

\* The waits as the code bounds them: a listing of the .tif wait begins at
\* most FILE_TIMEOUT plus one sleep of the loop after the wait began, and
\* the error is raised at the end of that listing, backoff sleeps included.
C19_Ceilings ==
    /\ InWait => elapsed < (Budget(Len(tasks)) + POLL_EVERY) * 1000
    /\ fatal.kind = "ee_timeout" => elapsed < (Budget(Len(tasks)) + POLL_EVERY) * 1000
    /\ pc = "fp" => elapsed <= (FILE_TIMEOUT + FILE_POLL_SLEEP) * 1000
    /\ fatal.kind = "tif_timeout" =>
          /\ elapsed > FILE_TIMEOUT * 1000
          /\ elapsed < (FILE_TIMEOUT + FILE_POLL_SLEEP) * 1000 + MaxBackoff

(* C19: termination.  Every run ends, by the report or by a fatal error; the
   task wait lasts less than max(WAIT_TIME, PER_TASK_WAIT x tasks) plus one
   POLL_EVERY; the .tif wait raises its error less than FILE_TIMEOUT plus
   one sleep of its loop plus the backoff sleeps of one listing after it
   began. *)
C19_Termination == []C19_Ceilings /\ <>Ended

\* The error of the .tif wait is raised later than FILE_TIMEOUT plus one
\* poll interval.
C19_Witness ==
    /\ fatal.kind = "tif_timeout"
    /\ elapsed > (FILE_TIMEOUT + POLL_EVERY) * 1000

\* How many times x occurs in the sequence q.
Occurrences(q, x) == Cardinality({ i \in 1..Len(q) : q[i] = x })

\* The regions whose tasks have been counted in total_tasks.
Counted == (si - 1) + (IF StepOf(pc) >= 3 THEN 1 ELSE 0)

(* C20: report accounting.  In a run that reaches the report every file
   whose relay was attempted is once in the sent list or once in the error
   list, never in both, so that sent + failed = attempts; the count of
   exports is the sum of the tasks started for the regions; the report
   carries these lists and this count, and its subject is the plain
   success one exactly when the error list is empty. *)
C20_ReportAccounting ==
    /\ pc # "aborted" => total_tasks = Counted * (Len(Offsets) * Len(INDICES))
    /\ pc \in {"mail", "done"} =>
          /\ Len(all_sent) + Len(all_errs) = Len(relay)
          /\ \A i \in 1..Len(relay) :
                LET key == <<relay[i].site, relay[i].name>> IN
                Occurrences(all_sent, key)
                   + Occurrences([j \in 1..Len(all_errs) |-> all_errs[j][1]], key) = 1
    /\ pc = "done" =>
          /\ Len(mails) = 1
          /\ mails[1].body.sent = all_sent
          /\ mails[1].body.errors = all_errs
          /\ mails[1].body.exports = total_tasks
          /\ (mails[1].subject = "Succes") <=> (mails[1].body.errors = <<>>)

\* A report with files sent and files failed.
C20_Witness ==
    /\ pc = "done"
    /\ all_sent # <<>>
    /\ all_errs # <<>>
    /\ mails[1].subject = "Succes (avec erreurs)"

====
